---- MODULE Spec2Model ----
(***************************************************************************)
(* A model of backend/models/gtfs.py: the service calendar resolver        *)
(* (get_services_by_date), the schedule deduplicator (save_timetables),    *)
(* the shape clusterer (is_subsequence, get_unique_shapes,                 *)
(* get_custom_direction_data) and the stop projector (get_stop_geometry,   *)
(* get_direction_data).                                                    *)
(*                                                                         *)
(* Each subsystem has its own specification over the shared variables:     *)
(*   SpecSubsequence  is_subsequence on bounded stop sequences             *)
(*   SpecShapes       get_unique_shapes, then get_custom_direction_data    *)
(*   SpecGeometry     the stop loop of get_direction_data                  *)
(*   SpecTimetables   get_services_by_date, then save_timetables           *)
(* Python lists are sequences; positions are Python's (0-based) wherever   *)
(* the code stores or compares them.  A dict is a sequence of entries in   *)
(* insertion order, which is the order Python iterates it in.              *)
(***************************************************************************)
EXTENDS Integers, Sequences, FiniteSets, TLC

VARIABLES
    pc,                 \* position of the running operation
    \* ---- is_subsequence
    smaller, bigger,    \* the arguments
    sub_result,         \* "True", "False", "IndexError", or "none" before the call
    \* ---- get_unique_shapes / get_custom_direction_data
    direction_shapes,   \* (shape_id, count, stop_ids) in processing order
    shape_i,            \* shapes processed so far
    unique_shapes_map,  \* insertion-ordered dict: entries [key, count, shape_id, stop_ids]
    sorted_shapes,      \* the returned list
    custom_direction_info, \* [included_stop_ids, excluded_stop_ids]
    matched_shapes,     \* get_custom_direction_data's local matching_shapes
    custom_result,      \* outcome of get_custom_direction_data
    \* ---- get_direction_data
    shape_path,         \* index into Paths: the shape's geometry
    stop_ids,           \* the direction's ordered stop ids
    stop_i,             \* stops visited so far
    start_index,        \* the walk's starting segment index
    stop_geometry,      \* local: the last value returned by get_stop_geometry
    dir_stop_geometry,  \* dir_data['stop_geometry']: insertion-ordered dict
    \* ---- get_services_by_date / save_timetables
    calendar,           \* rows of calendar.txt consumed so far
    calendar_dates,     \* rows of calendar_dates.txt consumed so far
    dates_map,          \* insertion-ordered dict: entries [d, service_ids]
    first_date_for_service_ids_map, \* insertion-ordered dict: entries [key, d]
    date_keys,          \* insertion-ordered dict: entries [d, key]
    key_i,              \* dates_map entries consumed by the date-key loop
    service_route_trips, \* the trips of the last service: [trip_id, t]
    trip_ids_map,       \* insertion-ordered dict: entries [trip_id, i]
    arrivals_by_service_id, \* insertion-ordered dict: entries [service_id, arrivals]
    timetables_out,    \* the written timetables: entries [date_key, service_ids, arrivals]
    \* ---- save_routes
    provider,           \* agency.provider
    nextbus_route_order, \* route ids in the external system's order
    route_sort_order,   \* the feed's route_sort_order column by route id, <<>> if absent
    gtfs_routes,        \* the feed's routes, as route ids in feed order
    routes_data,        \* [id, sort_order] of the routes read so far
    routes_out          \* [status, routes]: the serialized 'routes' list or the exception

subVars == <<smaller, bigger, sub_result>>
shapeVars == <<direction_shapes, shape_i, unique_shapes_map, sorted_shapes,
               custom_direction_info, matched_shapes, custom_result>>
geoVars == <<shape_path, stop_ids, stop_i, start_index, stop_geometry, dir_stop_geometry>>
calVars == <<calendar, calendar_dates, dates_map>>
ttVars == <<first_date_for_service_ids_map, date_keys, key_i, service_route_trips,
            trip_ids_map, arrivals_by_service_id, timetables_out>>
routeVars == <<provider, nextbus_route_order, route_sort_order, gtfs_routes,
               routes_data, routes_out>>
vars == <<pc, subVars, shapeVars, geoVars, calVars, ttVars, routeVars>>

(***************************************************************************)
(* Bounds of the model.                                                    *)
(***************************************************************************)
NumStops == 4           \* is_subsequence: stop ids 1..NumStops
MaxSmallerLen == 2      \* is_subsequence: longest first argument
MaxBiggerLen == 4       \* is_subsequence: longest second argument

Stops == 1..NumStops

RECURSIVE SeqsUpTo(_, _)
SeqsUpTo(S, n) ==
    IF n = 0 THEN {<<>>}
    ELSE LET shorter == SeqsUpTo(S, n - 1)
         IN  shorter \cup {Append(s, x) : s \in {t \in shorter : Len(t) = n - 1}, x \in S}


\* x in a Python list
InList(x, list) == \E i \in 1..Len(list) : list[i] = x

\* list.index(x, min_index): the 0-based position of the first occurrence at or
\* after min_index; only used where one exists (the caller handles ValueError)
ListIndex(list, x, min_index) ==
    (CHOOSE i \in (min_index + 1)..Len(list) :
        /\ list[i] = x
        /\ \A j \in (min_index + 1)..(i - 1) : list[j] # x) - 1

\* Python's list[a:b] for 0 <= a <= b <= len(list)
Slice(list, a, b) == SubSeq(list, a + 1, b)

subIdle == smaller = <<>> /\ bigger = <<>> /\ sub_result = "none"
shapeIdle ==
    /\ direction_shapes = <<>> /\ shape_i = 0 /\ unique_shapes_map = <<>>
    /\ sorted_shapes = <<>> /\ custom_direction_info = <<>> /\ matched_shapes = <<>>
    /\ custom_result = <<>>
geoIdle ==
    /\ shape_path = 0 /\ stop_ids = <<>> /\ stop_i = 0 /\ start_index = 0
    /\ stop_geometry = <<>> /\ dir_stop_geometry = <<>>
calIdle ==
    /\ calendar = <<>> /\ calendar_dates = <<>> /\ dates_map = <<>>
ttIdle ==
    /\ first_date_for_service_ids_map = <<>> /\ date_keys = <<>> /\ key_i = 0
    /\ service_route_trips = <<>> /\ trip_ids_map = <<>> /\ arrivals_by_service_id = <<>>
    /\ timetables_out = <<>>

routeIdle ==
    /\ provider = "none" /\ nextbus_route_order = <<>> /\ route_sort_order = <<>>
    /\ gtfs_routes = <<>> /\ routes_data = <<>>
    /\ routes_out = [status |-> "none", routes |-> <<>>]

(***************************************************************************)
(* is_subsequence(smaller, bigger)                                         *)
(***************************************************************************)
is_subsequence_first_only(a, b) ==
    IF Len(a) > Len(b) THEN "False"
    ELSE IF a = <<>> THEN "IndexError"
    ELSE IF ~InList(a[1], b) THEN "False"
    ELSE "True"

is_subsequence(a, b) ==
    IF Len(a) > Len(b) THEN "False"
    ELSE IF a = <<>> THEN "IndexError"      \* smaller[0] on an empty list
    ELSE IF ~InList(a[1], b) THEN "False"   \* ValueError from bigger.index
    ELSE LET start_pos == ListIndex(b, a[1], 0)
             end_pos == start_pos + Len(a)
         IN  IF end_pos > Len(b) THEN "False"
             ELSE IF a = Slice(b, start_pos, end_pos) THEN "True" ELSE "False"

InitSubsequence ==
    /\ pc = "is_subsequence"
    /\ smaller \in SeqsUpTo(Stops, MaxSmallerLen)
    /\ bigger \in SeqsUpTo(Stops, MaxBiggerLen)
    /\ sub_result = "none"
    /\ shapeIdle /\ geoIdle /\ calIdle /\ ttIdle /\ routeIdle

CallIsSubsequence ==
    /\ pc = "is_subsequence"
    /\ sub_result' = is_subsequence(smaller, bigger)
    /\ pc' = "returned"
    /\ UNCHANGED <<smaller, bigger, shapeVars, geoVars, calVars, ttVars, routeVars>>

NextSubsequence == CallIsSubsequence

SpecSubsequence == InitSubsequence /\ [][NextSubsequence]_vars

\* C3: is_subsequence returns True exactly when bigger contains smaller[0] and the
\* run of bigger of length len(smaller) starting at the first occurrence of
\* smaller[0] equals smaller; it returns False, without raising, when smaller is
\* longer than bigger, when smaller[0] does not occur in bigger, or when that run
\* would pass the end of bigger; [2,3] in [1,2,3,4] is True, [2,4] is False.
FirstOccurrence(x, list) ==
    CHOOSE i \in 1..Len(list) : list[i] = x /\ \A j \in 1..(i - 1) : list[j] # x

RunAtFirstOccurrence(a, b) ==
    /\ a # <<>>
    /\ \E i \in 1..Len(b) : b[i] = a[1]
    /\ LET p == FirstOccurrence(a[1], b)
       IN  /\ p + Len(a) - 1 <= Len(b)
           /\ \A k \in 1..Len(a) : b[p + k - 1] = a[k]

C3_IsSubsequenceContract ==
    pc = "returned" =>
        /\ (sub_result = "True") <=> RunAtFirstOccurrence(smaller, bigger)
        /\ Len(smaller) > Len(bigger) => sub_result = "False"
        /\ (smaller # <<>> /\ \A i \in 1..Len(bigger) : bigger[i] # smaller[1])
              => sub_result = "False"
        /\ (/\ smaller # <<>>
            /\ \E i \in 1..Len(bigger) : bigger[i] = smaller[1]
            /\ FirstOccurrence(smaller[1], bigger) + Len(smaller) - 1 > Len(bigger))
              => sub_result = "False"
        /\ (smaller = <<2, 3>> /\ bigger = <<1, 2, 3, 4>>) => sub_result = "True"
        /\ (smaller = <<2, 4>> /\ bigger = <<1, 2, 3, 4>>) => sub_result = "False"

\* a later occurrence of smaller[0] would match, the first one does not
C3_Witness ==
    /\ pc = "returned"
    /\ smaller = <<1, 2>>
    /\ bigger = <<1, 1, 2>>
    /\ sub_result = "False"

(***************************************************************************)
(* get_unique_shapes and get_custom_direction_data                         *)
(***************************************************************************)
ShapeNumStops == 2      \* shapes: stop ids 1..ShapeNumStops
MaxShapeLen == 3        \* shapes: longest stop sequence of a trip
MaxShapes == 3          \* shapes of one route/direction
MaxTripCount == 2       \* trips of one shape
MaxIncluded == 2        \* longest included_stop_ids
MaxExcluded == 1        \* longest excluded_stop_ids

ShapeStops == 1..ShapeNumStops
ShapeStopSeqs == SeqsUpTo(ShapeStops, MaxShapeLen)

\* np.unique + argsort(-counts): the shapes in descending order of trip count.
\* shape_id is the shape's rank in that order.
DirectionShapes ==
    UNION {
        {sh \in [1..n -> [shape_id : 1..n, count : 1..MaxTripCount, stop_ids : ShapeStopSeqs]] :
            /\ \A i \in 1..n : sh[i].shape_id = i
            /\ \A i \in 1..(n - 1) : sh[i].count >= sh[i + 1].count}
        : n \in 1..MaxShapes}

\* unique_shape_key: the first 12 hex digits of the SHA-256 of json.dumps(stop_ids).
\* json.dumps is one-to-one on lists of stop ids, and the truncated digest is
\* collision-free on the sequences of this model, so the key is the list itself.
unique_shape_key(shape_trip_stop_ids) == shape_trip_stop_ids

KeyIndex(map, key) ==
    IF \E i \in 1..Len(map) : map[i].key = key
    THEN CHOOSE i \in 1..Len(map) : map[i].key = key
    ELSE 0

RemoveAt(seq, i) == SubSeq(seq, 1, i - 1) \o SubSeq(seq, i + 1, Len(seq))

\* The loop of lines 417-427 from entry i on: the first entry that decides.
\*   "into": the new sequence is a subsequence of entry `at`
\*   "supersede": entry `at` is a subsequence of the new sequence
\*   "raise": is_subsequence raised at entry `at`;  "none": no entry matched
RECURSIVE MatchCluster(_, _, _)
MatchCluster(map, i, shape_trip_stop_ids) ==
    IF i > Len(map) THEN [kind |-> "none", at |-> 0]
    ELSE LET fwd == is_subsequence(shape_trip_stop_ids, map[i].stop_ids)
         IN  IF fwd = "IndexError" THEN [kind |-> "raise", at |-> i]
             ELSE IF fwd = "True" THEN [kind |-> "into", at |-> i]
             ELSE LET bwd == is_subsequence(map[i].stop_ids, shape_trip_stop_ids)
                  IN  IF bwd = "IndexError" THEN [kind |-> "raise", at |-> i]
                      ELSE IF bwd = "True" THEN [kind |-> "supersede", at |-> i]
                      ELSE MatchCluster(map, i + 1, shape_trip_stop_ids)

AddCount(map, i, n) == [map EXCEPT ![i].count = @ + n]

NewCluster(key, shape) ==
    [key |-> key, count |-> 0, shape_id |-> shape.shape_id, stop_ids |-> shape.stop_ids]

\* a mutant of MergeShape: a superseded cluster's count is dropped
MergeShape_drop_count(map, shape) ==
    LET key == unique_shape_key(shape.stop_ids)
    IN  IF KeyIndex(map, key) # 0
        THEN AddCount(map, KeyIndex(map, key), shape.count)
        ELSE LET m == MatchCluster(map, 1, shape.stop_ids)
             IN  IF m.kind = "into" THEN AddCount(map, m.at, shape.count)
                 ELSE IF m.kind = "supersede"
                 THEN LET rest == RemoveAt(map, m.at)
                      IN  AddCount(Append(rest, NewCluster(key, shape)),
                                   Len(rest) + 1, shape.count)
                 ELSE AddCount(Append(map, NewCluster(key, shape)),
                               Len(map) + 1, shape.count)

\* One iteration of the loop of lines 402-436 that does not raise.
MergeShape(map, shape) ==
    LET key == unique_shape_key(shape.stop_ids)
    IN  IF KeyIndex(map, key) # 0
        THEN AddCount(map, KeyIndex(map, key), shape.count)
        ELSE LET m == MatchCluster(map, 1, shape.stop_ids)
             IN  IF m.kind = "into" THEN AddCount(map, m.at, shape.count)
                 ELSE IF m.kind = "supersede"
                 THEN LET rest == RemoveAt(map, m.at)
                      IN  AddCount(Append(rest, NewCluster(key, shape)),
                                   Len(rest) + 1, shape.count + map[m.at].count)
                 ELSE AddCount(Append(map, NewCluster(key, shape)),
                               Len(map) + 1, shape.count)

ShapeRaises(map, shape) ==
    /\ KeyIndex(map, unique_shape_key(shape.stop_ids)) = 0
    /\ MatchCluster(map, 1, shape.stop_ids).kind = "raise"

\* the dict's values returned without sorting
SortByCountDesc_unsorted(list) == list

\* sorted(list, key = -count): Python's sort is stable
RECURSIVE SortByCountDesc(_)
InsertByCountDesc(sorted, x) ==
    LET before == {i \in 1..Len(sorted) : sorted[i].count >= x.count}
        k == IF before = {} THEN 0 ELSE CHOOSE i \in before : \A j \in before : j <= i
    IN  SubSeq(sorted, 1, k) \o <<x>> \o SubSeq(sorted, k + 1, Len(sorted))
SortByCountDesc(list) ==
    IF list = <<>> THEN <<>>
    ELSE InsertByCountDesc(SortByCountDesc(SubSeq(list, 1, Len(list) - 1)), list[Len(list)])

InitShapes ==
    /\ pc = "shapes_loop"
    /\ direction_shapes \in DirectionShapes
    /\ shape_i = 0
    /\ unique_shapes_map = <<>>
    /\ sorted_shapes = <<>>
    /\ custom_direction_info = <<>>
    /\ matched_shapes = <<>>
    /\ custom_result = <<>>
    /\ subIdle /\ geoIdle /\ calIdle /\ ttIdle /\ routeIdle

\* lines 402-436: one shape
ProcessShape ==
    /\ pc = "shapes_loop"
    /\ shape_i < Len(direction_shapes)
    /\ LET shape == direction_shapes[shape_i + 1]
       IN  IF ShapeRaises(unique_shapes_map, shape)
           THEN /\ pc' = "IndexError"
                /\ UNCHANGED unique_shapes_map
           ELSE /\ unique_shapes_map' = MergeShape(unique_shapes_map, shape)
                /\ pc' = pc
    /\ shape_i' = shape_i + 1
    /\ UNCHANGED <<direction_shapes, sorted_shapes, custom_direction_info, matched_shapes,
                   custom_result>>
    /\ UNCHANGED <<subVars, geoVars, calVars, ttVars, routeVars>>

\* lines 438-452: sort, then the summary loop, which reads stop_ids[0] of every
\* cluster
ReturnShapes ==
    /\ pc = "shapes_loop"
    /\ shape_i = Len(direction_shapes)
    /\ sorted_shapes' = SortByCountDesc(unique_shapes_map)
    /\ pc' = IF \E i \in 1..Len(unique_shapes_map) : unique_shapes_map[i].stop_ids = <<>>
             THEN "IndexError" ELSE "shapes_returned"
    /\ UNCHANGED <<direction_shapes, shape_i, unique_shapes_map, custom_direction_info,
                   matched_shapes, custom_result>>
    /\ UNCHANGED <<subVars, geoVars, calVars, ttVars, routeVars>>

\* a search that starts every lookup at the front of the list, so the order of
\* the included stops is not checked
contains_included_stops_any_order(shape_stop_ids, included_stop_ids, k, min_index) ==
    \A n \in k..Len(included_stop_ids) : InList(included_stop_ids[n], shape_stop_ids)

\* contains_included_stops, lines 469-477, from included_stop_ids[k] on
RECURSIVE contains_included_stops(_, _, _, _)
contains_included_stops(shape_stop_ids, included_stop_ids, k, min_index) ==
    IF k > Len(included_stop_ids) THEN TRUE
    ELSE IF \E i \in (min_index + 1)..Len(shape_stop_ids) :
                shape_stop_ids[i] = included_stop_ids[k]
         THEN contains_included_stops(shape_stop_ids, included_stop_ids, k + 1,
                  ListIndex(shape_stop_ids, included_stop_ids[k], min_index) + 1)
         ELSE FALSE

\* contains_excluded_stop, lines 479-486
contains_excluded_stop(shape_stop_ids, excluded_stop_ids) ==
    \E k \in 1..Len(excluded_stop_ids) : InList(excluded_stop_ids[k], shape_stop_ids)

\* lines 488-492
RECURSIVE matching_shapes(_, _)
matching_shapes(shapes, info) ==
    IF shapes = <<>> THEN <<>>
    ELSE LET shape == shapes[1]
             rest == matching_shapes(Tail(shapes), info)
         IN  IF /\ contains_included_stops(shape.stop_ids, info.included_stop_ids, 1, 0)
                /\ ~contains_excluded_stop(shape.stop_ids, info.excluded_stop_ids)
             THEN <<shape>> \o rest
             ELSE rest

ShapeIds(shapes) == [i \in 1..Len(shapes) |-> shapes[i].shape_id]

\* lines 494-506.  Line 496 formats route_id into the message, and route_id is
\* neither a parameter, a local nor a module global of gtfs.py: evaluating the
\* f-string raises NameError, so lines 497-506 never run and nothing of the
\* constraints or the candidate shape ids is reported.
AmbiguousMatch(matching, info) ==
    [kind |-> "raised", exception |-> "NameError",
     reported_included |-> <<>>, reported_excluded |-> <<>>, reported_shape_ids |-> <<>>,
     gtfs_shape_id |-> 0, stops |-> <<>>]

\* lines 508-520: get_direction_data on the one matching shape
MatchedDirection(matching_shape) ==
    [kind |-> "direction", exception |-> "",
     reported_included |-> <<>>, reported_excluded |-> <<>>, reported_shape_ids |-> <<>>,
     gtfs_shape_id |-> matching_shape.shape_id, stops |-> matching_shape.stop_ids]

CustomDirectionInfos ==
    [included_stop_ids : SeqsUpTo(ShapeStops, MaxIncluded),
     excluded_stop_ids : SeqsUpTo(ShapeStops, MaxExcluded)]

\* lines 454-520, after get_unique_shapes has returned
GetCustomDirectionData ==
    /\ pc = "shapes_returned"
    /\ \E info \in CustomDirectionInfos :
        /\ custom_direction_info' = info
        /\ matched_shapes' = matching_shapes(sorted_shapes, info)
        /\ IF Len(matched_shapes') # 1
           THEN /\ custom_result' = AmbiguousMatch(matched_shapes', info)
                /\ pc' = "custom_raised"
           ELSE /\ custom_result' = MatchedDirection(matched_shapes'[1])
                /\ pc' = "custom_returned"
    /\ UNCHANGED <<direction_shapes, shape_i, unique_shapes_map, sorted_shapes>>
    /\ UNCHANGED <<subVars, geoVars, calVars, ttVars, routeVars>>

NextShapes == ProcessShape \/ ReturnShapes \/ GetCustomDirectionData

SpecShapes == InitShapes /\ [][NextShapes]_vars

\* C4: with exactly two shapes, if one stop sequence passes is_subsequence against
\* the other, get_unique_shapes returns one cluster whose count is the sum of both
\* trip counts and whose stop sequence is the containing one, whichever shape is
\* processed first; if neither passes, it returns two clusters, each with its own
\* shape's count.
Passes(a, b) == is_subsequence(a, b) = "True"

C4_TwoShapes ==
    (pc = "shapes_returned" /\ Len(direction_shapes) = 2) =>
        LET s1 == direction_shapes[1]
            s2 == direction_shapes[2]
        IN  /\ (Passes(s1.stop_ids, s2.stop_ids) \/ Passes(s2.stop_ids, s1.stop_ids)) =>
                /\ Len(sorted_shapes) = 1
                /\ sorted_shapes[1].count = s1.count + s2.count
                /\ sorted_shapes[1].stop_ids =
                       IF Passes(s1.stop_ids, s2.stop_ids) THEN s2.stop_ids ELSE s1.stop_ids
            /\ (~Passes(s1.stop_ids, s2.stop_ids) /\ ~Passes(s2.stop_ids, s1.stop_ids)) =>
                /\ Len(sorted_shapes) = 2
                /\ \A i \in 1..2 : \E j \in 1..2 :
                       /\ sorted_shapes[j].stop_ids = direction_shapes[i].stop_ids
                       /\ sorted_shapes[j].count = direction_shapes[i].count
                       /\ sorted_shapes[j].shape_id = direction_shapes[i].shape_id

\* the contained shape has more trips and is processed first: the second shape
\* supersedes its cluster
C4_Witness ==
    /\ pc = "shapes_returned"
    /\ Len(direction_shapes) = 2
    /\ direction_shapes[1].stop_ids = <<1, 2>>
    /\ direction_shapes[2].stop_ids = <<1, 2, 1>>
    /\ direction_shapes[1].count = 2
    /\ direction_shapes[2].count = 1
    /\ Len(sorted_shapes) = 1
    /\ sorted_shapes[1].count = 3
    /\ sorted_shapes[1].shape_id = 2

\* C10: get_custom_direction_data returns a direction exactly when one cluster
\* survives the filtering; otherwise it fails with an error that reports the
\* included and excluded stop constraints and the candidate shape ids, and
\* produces no direction.
C10_AmbiguousMatchReported ==
    pc \in {"custom_returned", "custom_raised"} =>
        LET matching == matching_shapes(sorted_shapes, custom_direction_info)
        IN  /\ (custom_result.kind = "direction") <=> (Len(matching) = 1)
            /\ Len(matching) # 1 =>
                /\ custom_result.kind = "raised"
                /\ custom_result.exception = "Exception"
                /\ custom_result.reported_included = custom_direction_info.included_stop_ids
                /\ custom_result.reported_excluded = custom_direction_info.excluded_stop_ids
                /\ custom_result.reported_shape_ids = ShapeIds(matching)

(***************************************************************************)
(* get_stop_geometry and the stop loop of get_direction_data               *)
(*                                                                         *)
(* Coordinates are the projected x/y in whole metres.  The shapes are      *)
(* polylines of axis-parallel segments, so that every squared distance is  *)
(* an integer and the cumulative distance along the shape is exact.        *)
(* Offsets are kept squared: a < b on distances is a^2 < b^2, and int(d)   *)
(* is the integer square root of d^2.                                      *)
(***************************************************************************)
MaxDirStops == 3        \* stops of one direction

EarlyExitOffset == 50   \* line 34
DiscardOffset == 100    \* line 629
InitialBestOffset == 99999999   \* line 22

\* xy_geometry.coords of the shapes of the model
Paths ==
    << << <<0, 0>>, <<100, 0>>, <<200, 0>> >>,
       << <<0, 0>>, <<100, 0>>, <<100, 100>> >>,
       << <<0, 0>>, <<100, 0>>, <<100, 40>>, <<0, 40>> >> >>

\* stops_map: the projected position of each stop id
StopXY ==
    << <<20, 0>>, <<150, 0>>, <<10, 90>>, <<50, 150>>,
       <<210, 100>>, <<100, 10>>, <<60, 35>>, <<50, 100>> >>

GeoStops == 1..Len(StopXY)

Abs(x) == IF x < 0 THEN -x ELSE x
Min2(a, b) == IF a < b THEN a ELSE b
Max2(a, b) == IF a < b THEN b ELSE a

\* the gap between v and the interval [lo, hi]
Gap(v, lo, hi) == IF v < lo THEN lo - v ELSE IF v > hi THEN v - hi ELSE 0

\* shape_lines_xy[i].distance(stop_xy), squared, for an axis-parallel segment a-b
LineDistanceSq(a, b, xy) ==
    LET dx == Gap(xy[1], Min2(a[1], b[1]), Max2(a[1], b[1]))
        dy == Gap(xy[2], Min2(a[2], b[2]), Max2(a[2], b[2]))
    IN  dx * dx + dy * dy

\* stop_xy.distance(shape_point), squared
PointDistanceSq(a, xy) == (a[1] - xy[1]) * (a[1] - xy[1]) + (a[2] - xy[2]) * (a[2] - xy[2])

\* int(sqrt(n))
RECURSIVE IsqrtIn(_, _, _)
IsqrtIn(n, lo, hi) ==
    IF lo = hi THEN lo
    ELSE LET mid == (lo + hi + 1) \div 2
         IN  IF mid * mid <= n THEN IsqrtIn(n, mid, hi) ELSE IsqrtIn(n, lo, mid - 1)
Isqrt(n) == IsqrtIn(n, 0, Min2(n, 46340))     \* 46340^2 is the largest 32-bit square

\* len(shape_lines_xy), line 609
NumShapeLines(path) == Len(path) - 1

\* shape_lines_xy[shape_index] (0-based), squared distance to the stop
ShapeLineOffsetSq(path, shape_index, xy) ==
    LineDistanceSq(path[shape_index + 1], path[shape_index + 2], xy)

\* shape_cumulative_dist[i] (0-based): the length of the shape up to coordinate i
RECURSIVE shape_cumulative_dist(_, _)
shape_cumulative_dist(path, i) ==
    IF i = 0 THEN 0
    ELSE shape_cumulative_dist(path, i - 1)
         + Abs(path[i + 1][1] - path[i][1]) + Abs(path[i + 1][2] - path[i][2])

\* a scan without the early exit: every segment from shape_index on is considered
RECURSIVE ScanShapeLines_no_exit(_, _, _, _)
ScanShapeLines_no_exit(path, xy, shape_index, best) ==
    IF ~(shape_index < NumShapeLines(path)) THEN best
    ELSE LET shape_line_offset == ShapeLineOffsetSq(path, shape_index, xy)
         IN  ScanShapeLines_no_exit(path, xy, shape_index + 1,
                 IF best.offset_sq = -1 \/ shape_line_offset < best.offset_sq
                 THEN [offset_sq |-> shape_line_offset, index |-> shape_index,
                       last |-> shape_index]
                 ELSE [best EXCEPT !.last = shape_index])

\* The scan of lines 27-37 from shape_index on.  best.offset_sq = -1 stands for
\* the initial best_offset of 99999999, which every offset of the model is below.
\* best.last is the segment the scan stopped at.
RECURSIVE ScanShapeLines(_, _, _, _)
ScanShapeLines(path, xy, shape_index, best) ==
    IF ~(shape_index < NumShapeLines(path)) THEN best
    ELSE LET shape_line_offset == ShapeLineOffsetSq(path, shape_index, xy)
             better == best.offset_sq = -1 \/ shape_line_offset < best.offset_sq
             now == IF better
                    THEN [offset_sq |-> shape_line_offset, index |-> shape_index,
                          last |-> shape_index]
                    ELSE [best EXCEPT !.last = shape_index]
         IN  IF /\ now.offset_sq < EarlyExitOffset * EarlyExitOffset
                /\ shape_line_offset > now.offset_sq
             THEN now
             ELSE ScanShapeLines(path, xy, shape_index + 1, now)

BestShapeLine(path, xy, start) ==
    ScanShapeLines(path, xy, start, [offset_sq |-> -1, index |-> 0, last |-> -1])

\* a mutant of get_stop_geometry: the scan starts at segment 0
get_stop_geometry_from_zero(xy, path, start) ==
    LET best == BestShapeLine(path, xy, 0)
    IN  [distance |-> shape_cumulative_dist(path, best.index)
                        + Isqrt(PointDistanceSq(path[best.index + 1], xy)),
         after_index |-> best.index,
         offset |-> IF best.offset_sq = -1 THEN InitialBestOffset ELSE Isqrt(best.offset_sq)]

\* lines 15-52.  int(stop_dist) is shape_cumulative_dist (whole metres here) plus
\* the truncated distance to the segment's first point.
get_stop_geometry(xy, path, start) ==
    LET best == BestShapeLine(path, xy, start)
    IN  [distance |-> shape_cumulative_dist(path, best.index)
                        + Isqrt(PointDistanceSq(path[best.index + 1], xy)),
         after_index |-> best.index,
         offset |-> IF best.offset_sq = -1 THEN InitialBestOffset ELSE Isqrt(best.offset_sq)]

\* a mutant of NextStartIndex: a discarded stop advances the walk too
NextStartIndex_always(start, geometry) == geometry.after_index

\* line 629: the stop's geometry is discarded
BadGeometry(geometry) == geometry.offset > DiscardOffset

\* lines 629-635: start_index after the stop
NextStartIndex(start, geometry) ==
    IF BadGeometry(geometry) THEN start ELSE geometry.after_index

\* dict[k] = v
DictPut(dict, k, v) == [x \in DOMAIN dict \cup {k} |-> IF x = k THEN v ELSE dict[x]]

\* lines 629-633: dir_data['stop_geometry'] after the stop
NextStopGeometry(dict, stop_id, geometry) ==
    IF BadGeometry(geometry) THEN dict ELSE DictPut(dict, stop_id, geometry)

InitGeometry ==
    /\ pc = "direction_loop"
    /\ shape_path \in 1..Len(Paths)
    /\ stop_ids \in SeqsUpTo(GeoStops, MaxDirStops) \ {<<>>}
    /\ stop_i = 0
    /\ start_index = 0
    /\ stop_geometry = <<>>
    /\ dir_stop_geometry = <<>>
    /\ subIdle /\ shapeIdle /\ calIdle /\ ttIdle /\ routeIdle

\* lines 620-635: one stop
ProjectStop ==
    /\ pc = "direction_loop"
    /\ stop_i < Len(stop_ids)
    /\ LET stop_id == stop_ids[stop_i + 1]
           geometry == get_stop_geometry(StopXY[stop_id], Paths[shape_path], start_index)
       IN  /\ stop_geometry' = geometry
           /\ dir_stop_geometry' = NextStopGeometry(dir_stop_geometry, stop_id, geometry)
           /\ start_index' = NextStartIndex(start_index, geometry)
    /\ stop_i' = stop_i + 1
    /\ UNCHANGED <<pc, shape_path, stop_ids>>
    /\ UNCHANGED <<subVars, shapeVars, calVars, ttVars, routeVars>>

\* line 637
ReturnDirection ==
    /\ pc = "direction_loop"
    /\ stop_i = Len(stop_ids)
    /\ pc' = "direction_returned"
    /\ UNCHANGED <<geoVars, subVars, shapeVars, calVars, ttVars, routeVars>>

NextGeometry == ProjectStop \/ ReturnDirection

SpecGeometry == InitGeometry /\ [][NextGeometry]_vars

\* the stop visited by a ProjectStop step, and what the step did with it
VisitedStop == stop_ids[stop_i + 1]
VisitStep == pc = "direction_loop" /\ stop_i' = stop_i + 1
VisitRecorded ==
    /\ VisitedStop \in DOMAIN dir_stop_geometry'
    /\ dir_stop_geometry'[VisitedStop] = stop_geometry'
    /\ \A id \in DOMAIN dir_stop_geometry \ {VisitedStop} :
           id \in DOMAIN dir_stop_geometry' /\ dir_stop_geometry'[id] = dir_stop_geometry[id]
VisitDiscarded == dir_stop_geometry' = dir_stop_geometry

\* C5: in a direction returned by get_direction_data, over the stops that have an
\* entry in stop_geometry, taken in stop order, the recorded cumulative distance
\* never decreases.
C5_DistanceMonotone ==
    pc = "direction_returned" =>
        \A i, j \in 1..Len(stop_ids) :
            (/\ i < j
             /\ stop_ids[i] \in DOMAIN dir_stop_geometry
             /\ stop_ids[j] \in DOMAIN dir_stop_geometry)
            => dir_stop_geometry[stop_ids[i]].distance
                 <= dir_stop_geometry[stop_ids[j]].distance

\* C6: every call of get_stop_geometry returns an after_index at or above the
\* start_index it was given, and the start_index of the next stop is the
\* after_index of the last stop whose geometry was recorded; so after_index never
\* decreases over the recorded stops in stop order.
NoRepeatedStop == \A i, j \in 1..Len(stop_ids) : stop_ids[i] = stop_ids[j] => i = j

AfterIndexMonotone ==
    \A i, j \in 1..Len(stop_ids) :
        (/\ i < j
         /\ stop_ids[i] \in DOMAIN dir_stop_geometry
         /\ stop_ids[j] \in DOMAIN dir_stop_geometry)
        => dir_stop_geometry[stop_ids[i]].after_index
             <= dir_stop_geometry[stop_ids[j]].after_index

VisitOffsetSq ==
    BestShapeLine(Paths[shape_path], StopXY[VisitedStop], start_index).offset_sq

C7_DiscardAbove100Metres ==
    [][VisitStep =>
        /\ stop_ids' = stop_ids
        /\ IF VisitOffsetSq = -1 \/ VisitOffsetSq > DiscardOffset * DiscardOffset
           THEN VisitDiscarded /\ start_index' = start_index
           ELSE VisitRecorded /\ start_index' = stop_geometry'.after_index]_vars

\* C7, amended: the test is on the returned offset, which is truncated to whole
\* metres.  A stop whose truncated offset is above 100 (101 m or more) is not
\* recorded by the visit and does not advance start_index; any other stop is
\* recorded and advances start_index to its after_index; the stop list is kept.
C7_DiscardAbove100Truncated ==
    [][VisitStep =>
        /\ stop_ids' = stop_ids
        /\ stop_geometry'.offset =
               (IF VisitOffsetSq = -1 THEN InitialBestOffset ELSE Isqrt(VisitOffsetSq))
        /\ IF stop_geometry'.offset > DiscardOffset
           THEN VisitDiscarded /\ start_index' = start_index
           ELSE VisitRecorded /\ start_index' = stop_geometry'.after_index]_vars

\* a stop 158 m off the path, after a stop anchored at segment 1: it is in the
\* stop list, has no entry, and the walk still starts at segment 1
C7_Witness ==
    /\ pc = "direction_returned"
    /\ shape_path = 1
    /\ stop_ids = <<2, 4>>
    /\ stop_geometry.offset = 158
    /\ DOMAIN dir_stop_geometry = {2}
    /\ start_index = 1

(***************************************************************************)
(* get_services_by_date and save_timetables                                *)
(*                                                                         *)
(* Dates are day numbers; day 0 of the model is a Sunday.  Service ids are *)
(* numbers, ordered as Python orders the id strings.  The route has one    *)
(* direction and one stop, so a service's arrivals are one list of events  *)
(* [t, i]; every stop time has departure_time = arrival_time.              *)
(***************************************************************************)
NumServices == 2        \* service ids 1..NumServices
MaxDate == 1            \* dates 0..MaxDate
MaxCalendarRows == 2    \* rows of calendar.txt
MaxCalendarDateRows == 2 \* rows of calendar_dates.txt
MaxTripId == 2          \* trip ids 1..MaxTripId
MaxServiceTrips == 2    \* trips of one service on the route
MaxTime == 2            \* arrival times 1..MaxTime

Services == 1..NumServices
Dates == 0..MaxDate

\* date.weekday(): 0 is Monday, 6 is Sunday
Weekday(d) == (d + 6) % 7

\* rows of calendar.txt; the flags of the days outside the model's dates are 0
CalendarRows ==
    {row \in [service_id : Services, start_date : Dates, end_date : Dates,
              monday : {0, 1}, tuesday : {0}, wednesday : {0}, thursday : {0},
              friday : {0}, saturday : {0, 1}, sunday : {0, 1}] :
        row.start_date <= row.end_date}

\* rows of calendar_dates.txt
CalendarDateRows == [date : Dates, service_id : Services, exception_type : {1, 2}]

\* lines 144-158
WeekdaysOf(calendar_row) ==
    (IF calendar_row.monday = 1 THEN <<0>> ELSE <<>>)
    \o (IF calendar_row.tuesday = 1 THEN <<1>> ELSE <<>>)
    \o (IF calendar_row.wednesday = 1 THEN <<2>> ELSE <<>>)
    \o (IF calendar_row.thursday = 1 THEN <<3>> ELSE <<>>)
    \o (IF calendar_row.friday = 1 THEN <<4>> ELSE <<>>)
    \o (IF calendar_row.saturday = 1 THEN <<5>> ELSE <<>>)
    \o (IF calendar_row.saturday = 1 THEN <<6>> ELSE <<>>)    \* line 157 reads saturday

\* util.get_dates_in_range(start_date, end_date, weekdays): the dates from
\* start_date to end_date, in order, whose weekday is in weekdays
RECURSIVE get_dates_in_range(_, _, _)
get_dates_in_range(start_date, end_date, weekdays) ==
    IF start_date > end_date THEN <<>>
    ELSE (IF InList(Weekday(start_date), weekdays) THEN <<start_date>> ELSE <<>>)
         \o get_dates_in_range(start_date + 1, end_date, weekdays)

\* position of date d in dates_map, 0 if it is no key
DateIndex(map, d) ==
    IF \E i \in 1..Len(map) : map[i].d = d
    THEN CHOOSE i \in 1..Len(map) : map[i].d = d
    ELSE 0

\* lines 163-165 and 174-176: dates_map.setdefault(d, []).append(service_id)
AppendService(map, d, service_id) ==
    IF DateIndex(map, d) = 0
    THEN Append(map, [d |-> d, service_ids |-> <<service_id>>])
    ELSE [map EXCEPT ![DateIndex(map, d)].service_ids = Append(@, service_id)]

\* lines 162-165
RECURSIVE AddServiceOnDates(_, _, _)
AddServiceOnDates(map, dates, service_id) ==
    IF dates = <<>> THEN map
    ELSE AddServiceOnDates(AppendService(map, Head(dates), service_id), Tail(dates),
                           service_id)

\* list.remove(x): the first occurrence goes
ListRemove(list, x) == RemoveAt(list, ListIndex(list, x, 0) + 1)

\* lines 177-182
RemoveService(map, d, service_id) ==
    IF DateIndex(map, d) # 0 /\ InList(service_id, map[DateIndex(map, d)].service_ids)
    THEN [map EXCEPT ![DateIndex(map, d)].service_ids = ListRemove(@, service_id)]
    ELSE map

\* lines 167-182
ApplyCalendarDate(map, row) ==
    IF row.exception_type = 1 THEN AppendService(map, row.date, row.service_id)
    ELSE IF row.exception_type = 2 THEN RemoveService(map, row.date, row.service_id)
    ELSE map

InitTimetables ==
    /\ pc = "calendar"
    /\ calendar = <<>>
    /\ calendar_dates = <<>>
    /\ dates_map = <<>>
    /\ ttIdle
    /\ subIdle /\ shapeIdle /\ geoIdle /\ routeIdle

\* lines 139-165: one row of calendar.txt
CalendarRow ==
    /\ pc = "calendar"
    /\ Len(calendar) < MaxCalendarRows
    /\ \E calendar_row \in CalendarRows :
        /\ calendar' = Append(calendar, calendar_row)
        /\ dates_map' = AddServiceOnDates(dates_map,
               get_dates_in_range(calendar_row.start_date, calendar_row.end_date,
                                  WeekdaysOf(calendar_row)),
               calendar_row.service_id)
    /\ UNCHANGED <<pc, calendar_dates, ttVars, subVars, shapeVars, geoVars, routeVars>>

\* lines 167-182: one row of calendar_dates.txt
CalendarDateRow ==
    /\ pc \in {"calendar", "calendar_dates"}
    /\ Len(calendar_dates) < MaxCalendarDateRows
    /\ \E calendar_date_row \in CalendarDateRows :
        /\ calendar_dates' = Append(calendar_dates, calendar_date_row)
        /\ dates_map' = ApplyCalendarDate(dates_map, calendar_date_row)
    /\ pc' = "calendar_dates"
    /\ UNCHANGED <<calendar, ttVars, subVars, shapeVars, geoVars, routeVars>>

\* line 184, and lines 189-206 of save_timetables: the tables go out of scope
ReturnDatesMap ==
    /\ pc \in {"calendar", "calendar_dates"}
    /\ calendar' = <<>>
    /\ calendar_dates' = <<>>
    /\ pc' = IF dates_map = <<>> THEN "arrivals" ELSE "date_keys"
    /\ UNCHANGED <<dates_map, ttVars, subVars, shapeVars, geoVars, routeVars>>

\* sorted(service_ids), line 209
RECURSIVE SortAsc(_)
InsertAsc(sorted, x) ==
    LET before == {i \in 1..Len(sorted) : sorted[i] <= x}
        k == IF before = {} THEN 0 ELSE CHOOSE i \in before : \A j \in before : j <= i
    IN  SubSeq(sorted, 1, k) \o <<x>> \o SubSeq(sorted, k + 1, Len(sorted))
SortAsc(list) ==
    IF list = <<>> THEN <<>>
    ELSE InsertAsc(SortAsc(SubSeq(list, 1, Len(list) - 1)), list[Len(list)])

\* json.dumps of a list of ids and json.loads of the result, lines 210 and 260
json_dumps(list) == <<"json", list>>
json_loads(text) == text[2]

\* str(d) of a date, lines 214 and 284
DateStr(d) == <<"str", d>>

\* a lookup that ignores the key and answers with the newest entry
FirstDateIndex_last(map, key) == Len(map)

\* service_ids_key in first_date_for_service_ids_map, lines 211-214
FirstDateIndex(map, key) ==
    IF \E i \in 1..Len(map) : map[i].key = key
    THEN CHOOSE i \in 1..Len(map) : map[i].key = key
    ELSE 0

\* lines 208-214: one entry of dates_map
DateKeyStep ==
    /\ pc = "date_keys"
    /\ key_i < Len(dates_map)
    /\ LET d == dates_map[key_i + 1].d
           service_ids == SortAsc(dates_map[key_i + 1].service_ids)
           service_ids_key == json_dumps(service_ids)
           first == IF FirstDateIndex(first_date_for_service_ids_map, service_ids_key) = 0
                    THEN Append(first_date_for_service_ids_map,
                                [key |-> service_ids_key, d |-> d])
                    ELSE first_date_for_service_ids_map
       IN  /\ first_date_for_service_ids_map' = first
           /\ date_keys' = DictPut(date_keys, d,
                  DateStr(first[FirstDateIndex(first, service_ids_key)].d))
    /\ key_i' = key_i + 1
    /\ pc' = IF key_i + 1 = Len(dates_map) THEN "arrivals" ELSE "date_keys"
    /\ UNCHANGED <<service_route_trips, trip_ids_map, arrivals_by_service_id,
                   timetables_out>>
    /\ UNCHANGED <<calVars, subVars, shapeVars, geoVars, routeVars>>

\* the trips of one service on the route, each with its stop time at the stop
ServiceTrips ==
    SeqsUpTo([trip_id : 1..MaxTripId, t : 1..MaxTime], MaxServiceTrips) \ {<<>>}

MaxOf(S) == CHOOSE x \in S : \A y \in S : y <= x

\* a numbering that restarts in every call
NextTripInt_restart(map) == 1

\* lines 325-327
NextTripInt(map) ==
    IF DOMAIN map = {} THEN 1 ELSE MaxOf({map[k] : k \in DOMAIN map}) + 1

\* lines 338-365 from trips[k] on: the trip ids map and the stop's arrivals
RECURSIVE ScheduledArrivalsFrom(_, _, _, _, _)
ScheduledArrivalsFrom(trips, k, map, next_trip_int, arrivals) ==
    IF k > Len(trips) THEN [trip_ids_map |-> map, arrivals |-> arrivals]
    ELSE LET trip_id == trips[k].trip_id
             fresh == trip_id \notin DOMAIN map
             map2 == IF fresh THEN DictPut(map, trip_id, next_trip_int) ELSE map
         IN  ScheduledArrivalsFrom(trips, k + 1, map2,
                 IF fresh THEN next_trip_int + 1 ELSE next_trip_int,
                 Append(arrivals, [t |-> trips[k].t, i |-> map2[trip_id]]))

\* lines 316-367
get_scheduled_arrivals_by_service_id(trips, map) ==
    ScheduledArrivalsFrom(trips, 1, map, NextTripInt(map), <<>>)

ServiceIndex(entries, service_id) ==
    IF \E i \in 1..Len(entries) : entries[i].service_id = service_id
    THEN CHOOSE i \in 1..Len(entries) : entries[i].service_id = service_id
    ELSE 0

\* lines 256-257: the next service id of route_trips.groupby('service_id')
ScheduledArrivals ==
    /\ pc = "arrivals"
    /\ \E service_id \in Services, trips \in ServiceTrips :
        /\ \A i \in 1..Len(arrivals_by_service_id) :
               arrivals_by_service_id[i].service_id < service_id
        /\ LET got == get_scheduled_arrivals_by_service_id(trips, trip_ids_map)
           IN  /\ trip_ids_map' = got.trip_ids_map
               /\ arrivals_by_service_id' =
                      Append(arrivals_by_service_id,
                             [service_id |-> service_id, arrivals |-> got.arrivals])
        /\ service_route_trips' = trips
    /\ UNCHANGED <<pc, first_date_for_service_ids_map, date_keys, key_i, timetables_out>>
    /\ UNCHANGED <<calVars, subVars, shapeVars, geoVars, routeVars>>

\* sorted(list, key = t), line 282: Python's sort is stable
RECURSIVE SortByTime(_)
InsertByTime(sorted, x) ==
    LET before == {i \in 1..Len(sorted) : sorted[i].t <= x.t}
        k == IF before = {} THEN 0 ELSE CHOOSE i \in before : \A j \in before : j <= i
    IN  SubSeq(sorted, 1, k) \o <<x>> \o SubSeq(sorted, k + 1, Len(sorted))
SortByTime(list) ==
    IF list = <<>> THEN <<>>
    ELSE InsertByTime(SortByTime(SubSeq(list, 1, Len(list) - 1)), list[Len(list)])

\* lines 263-282 from service_ids[k] on
RECURSIVE MergeArrivals(_, _, _, _)
MergeArrivals(service_ids, k, by_service, merged) ==
    IF k > Len(service_ids) THEN merged
    ELSE IF ServiceIndex(by_service, service_ids[k]) = 0
    THEN MergeArrivals(service_ids, k + 1, by_service, merged)
    ELSE MergeArrivals(service_ids, k + 1, by_service,
             SortByTime(merged \o by_service[ServiceIndex(by_service, service_ids[k])].arrivals))

\* lines 259-300: the timetable of one date key
WriteTimetable ==
    /\ pc \in {"arrivals", "timetables"}
    /\ Len(timetables_out) < Len(first_date_for_service_ids_map)
    /\ LET entry == first_date_for_service_ids_map[Len(timetables_out) + 1]
           service_ids == json_loads(entry.key)
       IN  timetables_out' =
               Append(timetables_out,
                      [date_key |-> DateStr(entry.d),
                       service_ids |-> service_ids,
                       arrivals |-> MergeArrivals(service_ids, 1, arrivals_by_service_id, <<>>)])
    /\ pc' = "timetables"
    /\ UNCHANGED <<first_date_for_service_ids_map, date_keys, key_i, service_route_trips,
                   trip_ids_map, arrivals_by_service_id>>
    /\ UNCHANGED <<calVars, subVars, shapeVars, geoVars, routeVars>>

NextTimetables ==
    \/ CalendarRow
    \/ CalendarDateRow
    \/ ReturnDatesMap
    \/ DateKeyStep
    \/ ScheduledArrivals
    \/ WriteTimetable

SpecTimetables == InitTimetables /\ [][NextTimetables]_vars

\* the service ids active on date d according to dates_map, as a set
ActiveServices(map, d) ==
    IF DateIndex(map, d) = 0 THEN {}
    ELSE {map[DateIndex(map, d)].service_ids[k] :
              k \in 1..Len(map[DateIndex(map, d)].service_ids)}

\* the flag of a calendar row for weekday w (0 is Monday)
FlagOfWeekday(row, w) ==
    CASE w = 0 -> row.monday
      [] w = 1 -> row.tuesday
      [] w = 2 -> row.wednesday
      [] w = 3 -> row.thursday
      [] w = 4 -> row.friday
      [] w = 5 -> row.saturday
      [] w = 6 -> row.sunday

\* C8: before the exceptions are applied, a service is active on date d exactly
\* when some calendar row of that service has start_date <= d <= end_date and
\* the flag of d's own weekday equal to 1.
C8_WeeklyPattern ==
    pc = "calendar" =>
        \A d \in Dates, service_id \in Services :
            (service_id \in ActiveServices(dates_map, d))
            <=> \E k \in 1..Len(calendar) :
                    /\ calendar[k].service_id = service_id
                    /\ calendar[k].start_date <= d
                    /\ d <= calendar[k].end_date
                    /\ FlagOfWeekday(calendar[k], Weekday(d)) = 1

\* C9: a remove-type exception (2) for (d, s) with s active on d leaves s inactive
\* on d and changes no other date or service; with s not active on d it leaves
\* the whole mapping unchanged.  An add-type exception (1) makes s active on d.
C9_Exceptions ==
    [][(pc \in {"calendar", "calendar_dates"}
        /\ Len(calendar_dates') = Len(calendar_dates) + 1) =>
        LET row == calendar_dates'[Len(calendar_dates')]
        IN  /\ (row.exception_type = 2
                /\ row.service_id \in ActiveServices(dates_map, row.date)) =>
                   /\ row.service_id \notin ActiveServices(dates_map', row.date)
                   /\ \A d \in Dates :
                        ActiveServices(dates_map', d) \ {row.service_id}
                          = ActiveServices(dates_map, d) \ {row.service_id}
                   /\ \A d \in Dates \ {row.date} :
                        ActiveServices(dates_map', d) = ActiveServices(dates_map, d)
            /\ (row.exception_type = 2
                /\ row.service_id \notin ActiveServices(dates_map, row.date)) =>
                   dates_map' = dates_map
            /\ row.exception_type = 1 =>
                   row.service_id \in ActiveServices(dates_map', row.date)]_vars

\* C1: two dates of dates_map get the same date key exactly when their active
\* services are equal as sets.
C1_DateKeyIffSameServices ==
    (pc \in {"arrivals", "timetables"}) =>
        \A i, j \in 1..Len(dates_map) :
            (date_keys[dates_map[i].d] = date_keys[dates_map[j].d])
            <=> (ActiveServices(dates_map, dates_map[i].d)
                   = ActiveServices(dates_map, dates_map[j].d))

\* the arrivals of the services of set S, in ascending order of service id
RECURSIVE ArrivalsOfServices(_, _)
ArrivalsOfServices(S, by_service) ==
    IF S = {} THEN <<>>
    ELSE LET service_id == CHOOSE x \in S : \A y \in S : x <= y
             own == IF ServiceIndex(by_service, service_id) = 0 THEN <<>>
                    ELSE by_service[ServiceIndex(by_service, service_id)].arrivals
         IN  own \o ArrivalsOfServices(S \ {service_id}, by_service)

\* list is `events` reordered by ascending t, equal t in the order of `events`
IsStableTimeOrderOf(list, events) ==
    /\ Len(list) = Len(events)
    /\ \A p \in 1..Len(events) :
        LET rank == Cardinality({q \in 1..Len(events) :
                        \/ events[q].t < events[p].t
                        \/ (events[q].t = events[p].t /\ q < p)}) + 1
        IN  list[rank] = events[p]

\* C2: the merged arrival list of every written timetable is the concatenation of
\* the arrival lists of the services of the date key's service set, every event
\* once, in ascending t, events of equal t in insertion order (ascending service
\* id, then trip order).
C2_MergedArrivals ==
    \A k \in 1..Len(timetables_out) :
        LET tt == timetables_out[k]
            service_set == {tt.service_ids[n] : n \in 1..Len(tt.service_ids)}
        IN  IsStableTimeOrderOf(tt.arrivals,
                                ArrivalsOfServices(service_set, arrivals_by_service_id))

(***************************************************************************)
(* Trip integers                                                           *)
(***************************************************************************)
TripInts(map) == {map[trip_id] : trip_id \in DOMAIN map}

\* no two trip ids share an integer, and the integers are exactly 1..n
DenseTripInts(map) ==
    /\ \A a, b \in DOMAIN map : map[a] = map[b] => a = b
    /\ TripInts(map) = 1..Cardinality(DOMAIN map)

\* C11: within one route, after any sequence of calls sharing trip_ids_map, the
\* map is injective with values exactly 1..n, a trip's integer once assigned is
\* never changed by a later service id's call, and every arrival event of the
\* call carries the integer of its own trip.
C11_TripInts ==
    [][/\ DenseTripInts(trip_ids_map')
       /\ \A trip_id \in DOMAIN trip_ids_map :
            /\ trip_id \in DOMAIN trip_ids_map'
            /\ trip_ids_map'[trip_id] = trip_ids_map[trip_id]
       /\ Len(arrivals_by_service_id') = Len(arrivals_by_service_id) + 1 =>
            LET events == arrivals_by_service_id'[Len(arrivals_by_service_id')].arrivals
            IN  /\ Len(events) = Len(service_route_trips')
                /\ \A k \in 1..Len(events) :
                     /\ events[k].t = service_route_trips'[k].t
                     /\ events[k].i = trip_ids_map'[service_route_trips'[k].trip_id]]_vars

\* two services on the route, the later call having assigned integer 2 to a
\* trip the earlier call had not seen
C11_Witness ==
    /\ Len(arrivals_by_service_id) = 2
    /\ Cardinality(DOMAIN trip_ids_map) = 2
    /\ \A k \in 1..Len(arrivals_by_service_id[1].arrivals) :
           arrivals_by_service_id[1].arrivals[k].i = 1
    /\ \E k \in 1..Len(arrivals_by_service_id[2].arrivals) :
           arrivals_by_service_id[2].arrivals[k].i = 2

(***************************************************************************)
(* Which date names a group                                                *)
(***************************************************************************)
KeysAssigned == pc \in {"arrivals", "timetables"}

\* C13 as stated: the date key of every date is the string of the
\* chronologically earliest date with the same active-service set, whatever the
\* order of the calendar rows and exception rows.
C13_EarliestDateNamesGroup ==
    KeysAssigned =>
        \A i \in 1..Len(dates_map) :
            LET group == {d \in Dates :
                            /\ DateIndex(dates_map, d) # 0
                            /\ ActiveServices(dates_map, d)
                                 = ActiveServices(dates_map, dates_map[i].d)}
            IN  date_keys[dates_map[i].d]
                  = DateStr(CHOOSE d \in group : \A e \in group : d <= e)

\* C13 amended: the date key of every date is the string of the first date, in
\* the mapping's insertion order, that has the same sorted list of service ids.
C13_FirstInsertedDateNamesGroup ==
    KeysAssigned =>
        \A i \in 1..Len(dates_map) :
            LET same == {j \in 1..Len(dates_map) :
                            SortAsc(dates_map[j].service_ids)
                              = SortAsc(dates_map[i].service_ids)}
            IN  date_keys[dates_map[i].d]
                  = DateStr(dates_map[CHOOSE j \in same : \A k \in same : j <= k].d)

\* two dates with the same services, the later date inserted first and naming
\* the group
C13_Witness ==
    /\ KeysAssigned
    /\ Len(dates_map) = 2
    /\ dates_map[1].d > dates_map[2].d
    /\ dates_map[1].service_ids = dates_map[2].service_ids
    /\ dates_map[1].service_ids # <<>>
    /\ date_keys[dates_map[2].d] = DateStr(dates_map[1].d)

(***************************************************************************)
(* save_routes                                                             *)
(***************************************************************************)
NumRoutes == 3          \* route ids 1..NumRoutes, ordered as the id strings are
MaxSortOrder == 1       \* route_sort_order values 0..MaxSortOrder

None == -1              \* Python's None: never compared with an int by the model

Routes == 1..NumRoutes

\* lists of distinct route ids
RouteLists ==
    {l \in SeqsUpTo(Routes, NumRoutes) : \A a, b \in 1..Len(l) : l[a] = l[b] => a = b}

\* lines 728-735
SortOrderOf(route_id) ==
    IF provider = "nextbus"
    THEN IF InList(route_id, nextbus_route_order)
         THEN ListIndex(nextbus_route_order, route_id, 0)
         ELSE None
    ELSE IF route_sort_order # <<>> THEN route_sort_order[route_id] ELSE None

\* sorted(routes_data, key = sort_order), for ints only: Python's sort is stable
RECURSIVE SortBySortOrder(_)
InsertBySortOrder(sorted, x) ==
    LET before == {i \in 1..Len(sorted) : sorted[i].sort_order <= x.sort_order}
        k == IF before = {} THEN 0 ELSE CHOOSE i \in before : \A j \in before : j <= i
    IN  SubSeq(sorted, 1, k) \o <<x>> \o SubSeq(sorted, k + 1, Len(sorted))
SortBySortOrder(list) ==
    IF list = <<>> THEN <<>>
    ELSE InsertBySortOrder(SortBySortOrder(SubSeq(list, 1, Len(list) - 1)), list[Len(list)])

\* sorted(routes_data, key = id)
RECURSIVE SortById(_)
InsertById(sorted, x) ==
    LET before == {i \in 1..Len(sorted) : sorted[i].id <= x.id}
        k == IF before = {} THEN 0 ELSE CHOOSE i \in before : \A j \in before : j <= i
    IN  SubSeq(sorted, 1, k) \o <<x>> \o SubSeq(sorted, k + 1, Len(sorted))
SortById(list) ==
    IF list = <<>> THEN <<>>
    ELSE InsertById(SortById(SubSeq(list, 1, Len(list) - 1)), list[Len(list)])

\* lines 741-746.  routes_data[0] of an empty list raises IndexError.  Sorting two
\* or more routes compares every key with another one, and a comparison with
\* None (None < 3, 3 < None, None < None) raises TypeError.
SortedRoutes(data) ==
    IF data = <<>> THEN [status |-> "IndexError", routes |-> <<>>]
    ELSE IF data[1].sort_order # None
    THEN IF Len(data) >= 2 /\ \E i \in 1..Len(data) : data[i].sort_order = None
         THEN [status |-> "TypeError", routes |-> <<>>]
         ELSE [status |-> "saved", routes |-> SortBySortOrder(data)]
    ELSE [status |-> "saved", routes |-> SortById(data)]

InitRoutes ==
    /\ pc = "routes"
    /\ gtfs_routes \in RouteLists
    /\ \/ /\ provider = "nextbus"
          /\ nextbus_route_order \in RouteLists
          /\ route_sort_order = <<>>
       \/ /\ provider = "gtfs"
          /\ nextbus_route_order = <<>>
          /\ route_sort_order \in {<<>>} \cup [Routes -> 0..MaxSortOrder]
    /\ routes_data = <<>>
    /\ routes_out = [status |-> "none", routes |-> <<>>]
    /\ subIdle /\ shapeIdle /\ geoIdle /\ calIdle /\ ttIdle

\* lines 725-739: one route of the feed
GetRouteData ==
    /\ pc = "routes"
    /\ Len(routes_data) < Len(gtfs_routes)
    /\ LET route_id == gtfs_routes[Len(routes_data) + 1]
       IN  routes_data' = Append(routes_data,
                                 [id |-> route_id, sort_order |-> SortOrderOf(route_id)])
    /\ UNCHANGED <<pc, provider, nextbus_route_order, route_sort_order, gtfs_routes,
                   routes_out>>
    /\ UNCHANGED <<subVars, shapeVars, geoVars, calVars, ttVars>>

\* lines 741-756
SaveRoutes ==
    /\ pc = "routes"
    /\ Len(routes_data) = Len(gtfs_routes)
    /\ routes_out' = SortedRoutes(routes_data)
    /\ pc' = "routes_done"
    /\ UNCHANGED <<provider, nextbus_route_order, route_sort_order, gtfs_routes,
                   routes_data>>
    /\ UNCHANGED <<subVars, shapeVars, geoVars, calVars, ttVars>>

NextRoutes ==
    \/ GetRouteData
    \/ SaveRoutes

SpecRoutes == InitRoutes /\ [][NextRoutes]_vars

\* C12: with the external system's order in use, a route whose id is missing
\* from the external order list does not stop save_routes: for every mix of
\* routes with and without a sort_order, in any feed order, save_routes
\* completes and serializes every route of the feed.
C12_LookupFailureRecoverable ==
    (pc = "routes_done" /\ provider = "nextbus" /\ gtfs_routes # <<>>) =>
        /\ routes_out.status = "saved"
        /\ Len(routes_out.routes) = Len(gtfs_routes)
        /\ {routes_out.routes[i].id : i \in 1..Len(routes_out.routes)}
             = {gtfs_routes[i] : i \in 1..Len(gtfs_routes)}

(***************************************************************************)
(* Trip counts and distinctness of the clusters                            *)
(***************************************************************************)
RECURSIVE SumCounts(_)
SumCounts(list) ==
    IF list = <<>> THEN 0 ELSE list[1].count + SumCounts(Tail(list))

\* C14: after each processed shape the clusters' counts sum to the trip count of
\* the shapes processed so far, so the returned clusters' counts sum to the
\* number of trips of the direction; the returned list is in descending order of
\* count.
C14_CountsConserved ==
    /\ pc = "shapes_loop" =>
           SumCounts(unique_shapes_map) = SumCounts(SubSeq(direction_shapes, 1, shape_i))
    /\ pc \in {"shapes_returned", "custom_raised", "custom_returned"} =>
           /\ SumCounts(sorted_shapes) = SumCounts(direction_shapes)
           /\ \A i \in 1..(Len(sorted_shapes) - 1) :
                  sorted_shapes[i].count >= sorted_shapes[i + 1].count

\* three shapes, the third merged into the second cluster, which thereby
\* overtakes the first
C14_Witness ==
    /\ pc = "shapes_returned"
    /\ Len(direction_shapes) = 3
    /\ Len(unique_shapes_map) = 2
    /\ unique_shapes_map[1].count < unique_shapes_map[2].count
    /\ sorted_shapes[1] = unique_shapes_map[2]
    /\ sorted_shapes[1].count = direction_shapes[2].count + direction_shapes[3].count

\* C15: no returned cluster's stop sequence passes is_subsequence against the
\* stop sequence of a different returned cluster.
C15_ClustersDistinct ==
    pc = "shapes_returned" =>
        \A i, j \in 1..Len(sorted_shapes) :
            i # j => ~Passes(sorted_shapes[i].stop_ids, sorted_shapes[j].stop_ids)

(***************************************************************************)
(* Where the scan of get_stop_geometry stops                               *)
(***************************************************************************)
\* the least squared offset of the stop over segments a..b (0-based)
MinOffsetSq(path, xy, a, b) ==
    LET offsets == {ShapeLineOffsetSq(path, i, xy) : i \in a..b}
    IN  CHOOSE m \in offsets : \A o \in offsets : m <= o

\* at segment k the best offset of start..k is under 50 m and k's own is larger
ExitsAt(path, xy, start, k) ==
    /\ MinOffsetSq(path, xy, start, k) < EarlyExitOffset * EarlyExitOffset
    /\ ShapeLineOffsetSq(path, k, xy) > MinOffsetSq(path, xy, start, k)

\* the segment the scan stops at
ScanEnd(path, xy, start) ==
    LET exits == {k \in start..(NumShapeLines(path) - 1) : ExitsAt(path, xy, start, k)}
    IN  IF exits = {} THEN NumShapeLines(path) - 1
        ELSE CHOOSE k \in exits : \A j \in exits : k <= j

\* C16: get_stop_geometry scans forward from start_index and stops at the first
\* segment k at which the best offset so far is under 50 and k's offset is larger
\* than it, or at the last segment; after_index is the lowest index of
\* start_index..k with the least offset of start_index..k, and offset is that
\* least offset truncated to an integer, whatever the segments after k are.
C16_ScanStopsAtK ==
    [][VisitStep =>
        LET path == Paths[shape_path]
            xy == StopXY[VisitedStop]
            k == ScanEnd(path, xy, start_index)
            least == MinOffsetSq(path, xy, start_index, k)
        IN  /\ stop_geometry'.after_index \in start_index..k
            /\ ShapeLineOffsetSq(path, stop_geometry'.after_index, xy) = least
            /\ \A i \in start_index..(stop_geometry'.after_index - 1) :
                   ShapeLineOffsetSq(path, i, xy) > least
            /\ stop_geometry'.offset = Isqrt(least)]_vars

\* the stop at (60,35) on the path (0,0)-(100,0)-(100,40)-(0,40): the scan leaves
\* at segment 1 (35 m, then 40 m) and never sees segment 2, 5 m from the stop
C16_Witness ==
    /\ shape_path = 3
    /\ stop_i = 1
    /\ StopXY[stop_ids[1]] = <<60, 35>>
    /\ ScanEnd(Paths[3], <<60, 35>>, 0) = 1
    /\ ShapeLineOffsetSq(Paths[3], 2, <<60, 35>>) = 25
    /\ stop_geometry.after_index = 0
    /\ stop_geometry.offset = 35

(***************************************************************************)
(* Which clusters survive the custom-direction filter                      *)
(***************************************************************************)
\* list `part` can be read off `whole` at strictly increasing positions
InOrderSubsequence(part, whole) ==
    \E at \in [1..Len(part) -> 1..Len(whole)] :
        /\ \A k \in 1..Len(part) : whole[at[k]] = part[k]
        /\ \A k \in 1..(Len(part) - 1) : at[k] < at[k + 1]

Survives(shape, info) ==
    /\ InOrderSubsequence(info.included_stop_ids, shape.stop_ids)
    /\ \A k \in 1..Len(info.excluded_stop_ids) :
           \A n \in 1..Len(shape.stop_ids) : shape.stop_ids[n] # info.excluded_stop_ids[k]

CustomFiltered == pc \in {"custom_raised", "custom_returned"}

\* C17: a cluster survives the filtering exactly when included_stop_ids is an
\* in-order, possibly non-contiguous subsequence of its stop sequence (each
\* included stop matched strictly after the previous one) and no excluded stop
\* occurs in its stop sequence; with both lists empty every cluster survives.
C17_FilterSurvivors ==
    CustomFiltered =>
        /\ \A i \in 1..Len(sorted_shapes) :
               InList(sorted_shapes[i], matched_shapes)
               <=> Survives(sorted_shapes[i], custom_direction_info)
        /\ \A i \in 1..Len(matched_shapes) : InList(matched_shapes[i], sorted_shapes)
        /\ (/\ custom_direction_info.included_stop_ids = <<>>
            /\ custom_direction_info.excluded_stop_ids = <<>>) => matched_shapes = sorted_shapes

\* included stops 2 then 1: the cluster 2,2,1 survives with a gap between the
\* matches, and the cluster 1,2 holds both stops in the wrong order and does not
C17_Witness ==
    /\ CustomFiltered
    /\ custom_direction_info.included_stop_ids = <<2, 1>>
    /\ custom_direction_info.excluded_stop_ids = <<>>
    /\ Len(sorted_shapes) = 2
    /\ \E i, j \in 1..2 :
           /\ sorted_shapes[i].stop_ids = <<1, 2>>
           /\ sorted_shapes[j].stop_ids = <<2, 2, 1>>
           /\ matched_shapes = <<sorted_shapes[j]>>

====
